---- MODULE Spec2Model ----
(***************************************************************************)
(* A model of build-scripts/build-release.py: the release packaging run of *)
(* main(), the Executer, the Releaser steps and the pure helpers they use. *)
(* A run is a sequence of steps (one action per step of main); external    *)
(* tools and the file system are the environment.                          *)
(***************************************************************************)
EXTENDS Integers, Sequences, FiniteSets, TLC

\* ------------------------------------------------------------------ bounds
\* Members of the commit's tree (git archive) at most.
MaxTree == 2
\* Commits in the history (git log) at most.
MaxCommits == 2
\* Commit instants are 1..MaxTime (seconds).
MaxTime == 2
\* Lines of the version file at most.
MaxLines == 4
\* Invocations of the script, one after the other on the same checkout.
MaxRuns == 2
\* Dependencies declared in the manifest.
NDeps == 1
\* msbuild output paths declared in the manifest.
NBuilt == 2
\* A glob matches 0..MaxMatch files.
MaxMatch == 2

\* ------------------------------------------------------------- small helpers
Range(s) == {s[i] : i \in DOMAIN s}

SeqsUpTo(S, n) == UNION {[1..k -> S] : k \in 0..n}

Injective(s) == \A i, j \in DOMAIN s : s[i] = s[j] => i = j

\* ------------------------------------------------------------------- paths
\* A path is a sequence of pieces; a leading ".git" is a piece of its own, so
\* that str.startswith(".git") is a test of the first piece.
GIT_HASH_FILENAME == <<".git", "-hash">>

VERSION_TXT == <<"VERSION.txt">>

FileA == <<"CMakeLists.txt">>

FileB == <<"src/a.c">>

FileG == <<".git", "ignore">>

DirS == <<"src">>

FilePaths == {FileA, FileB, FileG}

StartsWith(path, piece) == Len(path) >= 1 /\ path[1] = piece

\* Releaser._path_filter
PathFilter(path) == ~StartsWith(path, ".git")

\* ------------------------------------------------------------------- times
\* A commit time (%cI): an instant and the committer's UTC offset, in seconds.
Offsets == {0, 3600}

TimeVals == [utc : 1..MaxTime, off : Offsets]

\* datetime.timestamp(): the instant.
Timestamp(t) == t.utc

\* (time.year, ..., time.second): the wall-clock fields in the time's own offset,
\* as seconds.
WallClock(t) == t.utc + t.off

\* ------------------------------------------------------- the commit's tree
\* A member of the tar stream of git archive. The data and the mode of a member
\* stand for its blob; they differ from member to member.
Member(name, isfile, mode) ==
  [name |-> name, isfile |-> isfile, mode |-> mode, data |-> <<"blob">> \o name]

Members ==
  { Member(FileA, TRUE, 420), Member(FileB, TRUE, 493),
    Member(FileG, TRUE, 420), Member(DirS, FALSE, 493) }

Trees == {t \in SeqsUpTo(Members, MaxTree) : Injective(t)}

\* ------------------------------------------------------ the commit history
\* A commit: its commit time and its name-status records, each the list of paths
\* of one record (one path, or two for a rename or a copy).
StatusRecords == {<<p>> : p \in FilePaths} \cup {<<FileB, FileA>>}

Commits == [time : TimeVals, records : SeqsUpTo(StatusRecords, 1)]

Histories == SeqsUpTo(Commits, MaxCommits)

TimeLine(t) == [kind |-> "time", time |-> <<t>>, paths |-> <<>>]

BlankLine == [kind |-> "blank", time |-> <<>>, paths |-> <<>>]

StatusLine(ps) == [kind |-> "status", time |-> <<>>, paths |-> ps]

\* The lines of git log --name-status --pretty=time=%cI, newest commit first.
RECURSIVE GitLogOut(_)
GitLogOut(history) ==
  IF history = <<>> THEN <<>>
  ELSE LET c == Head(history) IN
       <<TimeLine(c.time)>>
       \o (IF c.records = <<>> THEN <<>> ELSE <<BlankLine>>)
       \o [i \in 1..Len(c.records) |-> StatusLine(c.records[i])]
       \o GitLogOut(Tail(history))

\* The canned log a dry run reads instead (dry_out of _get_file_times).
DryLogOut ==
  << TimeLine([utc |-> 1, off |-> 0]), BlankLine, StatusLine(<<FileA>>) >>

\* An inner loop in which a later, older record replaces the time of a path.
RECURSIVE RecordPathsLastWins(_, _, _, _, _)
RecordPathsLastWins(ps, i, cur, setPaths, pathTimes) ==
  IF i > Len(ps) THEN pathTimes
  ELSE RecordPathsLastWins(ps, i + 1, cur, setPaths,
         IF ps[i] \in setPaths
         THEN [x \in DOMAIN pathTimes \cup {ps[i]} |-> IF x = ps[i] THEN cur ELSE pathTimes[x]]
         ELSE pathTimes)

\* The inner loop of _get_file_times: a path of the record gets current_time if it
\* is one of the wanted paths and has no time yet.
RECURSIVE RecordPaths(_, _, _, _, _)
RecordPaths(ps, i, cur, setPaths, pathTimes) ==
  IF i > Len(ps) THEN pathTimes
  ELSE RecordPaths(ps, i + 1, cur, setPaths,
         IF ps[i] \in setPaths /\ ps[i] \notin DOMAIN pathTimes
         THEN pathTimes @@ (ps[i] :> cur)
         ELSE pathTimes)

\* The loop of _get_file_times over the lines of the log. cur is <<>> for None.
\* The result is <<"fail">> when a status line comes before any time line.
RECURSIVE ScanLog(_, _, _, _, _)
ScanLog(lines, i, cur, setPaths, pathTimes) ==
  IF i > Len(lines) THEN <<"ok", pathTimes>>
  ELSE LET l == lines[i] IN
       IF l.kind = "blank" THEN ScanLog(lines, i + 1, cur, setPaths, pathTimes)
       ELSE IF l.kind = "time" THEN ScanLog(lines, i + 1, l.time, setPaths, pathTimes)
       ELSE IF cur = <<>> THEN <<"fail">>
       ELSE ScanLog(lines, i + 1, cur, setPaths,
                    RecordPaths(l.paths, 1, cur[1], setPaths, pathTimes))

EmptyMap == [x \in {} |-> x]

\* Releaser._get_file_times: [ok, times]; not ok when the final assertion fails.
GetFileTimes(paths, lines) ==
  LET r == ScanLog(lines, 1, <<>>, Range(paths), EmptyMap) IN
  IF r[1] = "ok" /\ DOMAIN r[2] = Range(paths)
  THEN [ok |-> TRUE, times |-> r[2]]
  ELSE [ok |-> FALSE, times |-> EmptyMap]

\* ------------------------------------------------------------ tree items
TreeItem(path, mode, data, time) ==
  [path |-> path, mode |-> mode, data |-> data, time |-> time]

SelectFiles(tree) == SelectSeq(tree, LAMBDA m : m.isfile)

FileNames(tree) == [i \in 1..Len(SelectFiles(tree)) |-> SelectFiles(tree)[i].name]

\* Checks that are never tested.
ChecksExistSkipped(checks, filenames) == TRUE

\* The checks of the manifest against the file names of the tree.
ChecksExist(checks, filenames) == \A i \in DOMAIN checks : checks[i] \in Range(filenames)

KeptMembers(tree) == SelectSeq(tree, LAMBDA m : m.isfile /\ PathFilter(m.name))

\* Releaser._get_git_contents on the bytes git archive gave (<<>>: none, the dry
\* run's dry_out) and the lines of the log: [ok, items], the items in tree order.
GetGitContents(archiveOut, checks, lines) ==
  IF archiveOut = <<>> THEN [ok |-> FALSE, items |-> <<>>]
  ELSE LET tree == archiveOut[1]
           filenames == FileNames(tree)
           ft == GetFileTimes(filenames, lines)
           kept == KeptMembers(tree)
       IN IF ~ChecksExist(checks, filenames) \/ ~ft.ok
          THEN [ok |-> FALSE, items |-> <<>>]
          ELSE [ok |-> TRUE,
                items |-> [i \in 1..Len(kept) |->
                             TreeItem(kept[i].name, kept[i].mode, kept[i].data,
                                      ft.times[kept[i].name])]]

\* max(item.time for item in git_files): the first of the latest times.
RECURSIVE MaxTimeFrom(_, _, _)
MaxTimeFrom(items, i, best) ==
  IF i > Len(items) THEN best
  ELSE MaxTimeFrom(items, i + 1,
         IF Timestamp(items[i].time) > Timestamp(best) THEN items[i].time ELSE best)

LatestModTime(items) == MaxTimeFrom(items, 2, items[1].time)

\* A sort that puts an item before the items of the same instant.
RECURSIVE InsertBeforeEqual(_, _)
InsertBeforeEqual(sorted, item) ==
  IF sorted = <<>> THEN <<item>>
  ELSE IF Timestamp(sorted[Len(sorted)].time) < Timestamp(item.time)
       THEN Append(sorted, item)
       ELSE Append(InsertBeforeEqual(SubSeq(sorted, 1, Len(sorted) - 1), item),
                   sorted[Len(sorted)])

\* list.sort(key=lambda v: v.time): a stable sort on the instant.
RECURSIVE InsertByTime(_, _)
InsertByTime(sorted, item) ==
  IF sorted = <<>> THEN <<item>>
  ELSE IF Timestamp(sorted[Len(sorted)].time) <= Timestamp(item.time)
       THEN Append(sorted, item)
       ELSE Append(InsertByTime(SubSeq(sorted, 1, Len(sorted) - 1), item),
                   sorted[Len(sorted)])

RECURSIVE SortByTime(_)
SortByTime(items) ==
  IF items = <<>> THEN <<>>
  ELSE InsertByTime(SortByTime(SubSeq(items, 1, Len(items) - 1)), items[Len(items)])

\* The two synthetic files, stamped with the latest time of the real files.
SyntheticFiles(version, commit, latest) ==
  << TreeItem(VERSION_TXT, 33188, <<"text", version>>, latest),
     TreeItem(GIT_HASH_FILENAME, 33188, <<"text", commit>>, latest) >>

\* git_files of create_source_archives, sorted; the real files are not empty.
GitFiles(items, version, commit) ==
  SortByTime(items \o SyntheticFiles(version, commit, LatestModTime(items)))

\* --------------------------------------------------------------- archives
ArcName(base, path) == <<base>> \o path

\* mode << 16, a 32-bit field: the mode in its high half, zero in its low half.
ShiftLeft16(mode) == [hi16 |-> mode, lo16 |-> 0]

\* The ZipInfo and the data of one entry of the zip: the name, date_time (the
\* wall-clock fields of the time), external_attr and the data.
ZipEntry(base, f) ==
  [name |-> ArcName(base, f.path), date_time |-> WallClock(f.time),
   external_attr |-> ShiftLeft16(f.mode), data |-> f.data]

\* The TarInfo and the data of one entry of a tar: the name, the mode, the mtime
\* (the instant of the time) and the data.
TarEntry(base, f) ==
  [name |-> ArcName(base, f.path), mode |-> f.mode, mtime |-> Timestamp(f.time),
   data |-> f.data]

ZipOf(base, files) == [i \in 1..Len(files) |-> ZipEntry(base, files[i])]

TarOf(base, files) == [i \in 1..Len(files) |-> TarEntry(base, files[i])]

\* A header left as the gzip writer wrote it.
KeepGzipMtime(written) == written

\* The MTIME field of the header of the .tar.gz after the code has seeked to byte
\* 4 and written four zero bytes; written is what the gzip writer had put there.
ZeroGzipMtime(written) == 0

\* --------------------------------------------------------- version file
\* A line of the version file: the macro it defines, if any of the three patterns
\* of the manifest matches it, and the digits that pattern captures in group 1.
VersionLines ==
  [macro : {"major", "minor", "micro"}, val : 1..2] \cup {[macro |-> "other", val |-> 1]}

VersionTexts == SeqsUpTo(VersionLines, MaxLines)

\* The last match instead of the first.
RECURSIVE LastMatch(_, _, _)
LastMatch(macro, text, i) ==
  IF i > Len(text) THEN <<>>
  ELSE LET later == LastMatch(macro, text, i + 1) IN
       IF later # <<>> THEN later
       ELSE IF text[i].macro = macro THEN <<text[i].val>> ELSE <<>>

\* next(re.finditer(pattern, text, flags=re.M)): the matches in text order from
\* line i on; <<>> when the iterator is exhausted (StopIteration).
RECURSIVE NextMatch(_, _, _)
NextMatch(macro, text, i) ==
  IF i > Len(text) THEN <<>>
  ELSE IF text[i].macro = macro THEN <<text[i].val>>
  ELSE NextMatch(macro, text, i + 1)

\* Releaser.extract_sdl_version: <<>> when it raises.
ExtractSdlVersion(text) ==
  LET major == NextMatch("major", text, 1)
      minor == NextMatch("minor", text, 1)
      micro == NextMatch("micro", text, 1)
  IN IF major = <<>> \/ minor = <<>> \/ micro = <<>> THEN <<>>
     ELSE <<major[1], ".", minor[1], ".", micro[1]>>

\* ============================================================ the run
VARIABLES
  \* the command line
  dry, force, overwrite, actionList, github, vsYear, commitArg,
  \* the checkout: the marker file and its content, the version file, the
  \* manifest's checks and its msvc file lists, the commit's tree and history
  isArchive, markerText, versionText, checks, manifest, tree, history,
  \* the surroundings, known once the script has looked at them
  platform, cwdIsRoot, fs,
  \* the run
  run, pc, exitCode, commit, version, calls, steps, globs, touched, artifacts,
  gitFiles, fileTimes, archives, prevArchives, packed,
  failure, ciOutput, treeStatus, vs, dsts, clobbered, develZip

inputs == <<dry, force, overwrite, actionList, github, vsYear, commitArg, isArchive,
            markerText, versionText, checks, manifest, tree, history>>

vars == <<dry, force, overwrite, actionList, github, vsYear, commitArg, isArchive,
          markerText, versionText, checks, manifest, tree, history,
          platform, cwdIsRoot, fs, run, pc, exitCode, commit, version, calls, steps,
          globs, touched, artifacts, gitFiles, fileTimes, archives, prevArchives, packed,
          failure, ciOutput, treeStatus, vs, dsts, clobbered, develZip>>

\* A run that takes every action, whatever the command line names.
EveryAction == {"download", "source", "mingw", "msvc", "dmg"}

\* args.actions as main uses it: "x" in args.actions.
actions == Range(actionList)

ActionNames == {"download", "source", "mingw", "msvc", "dmg"}

\* --actions is required and repeatable; main only tests membership.
ActionSelections == (SUBSET ActionNames) \ {{}}

\* One command line for each selection: the flags in an order that is not the
\* order of the steps.
ArgOrder == <<"mingw", "msvc", "dmg", "source", "download">>

ListOf(S) == SelectSeq(ArgOrder, LAMBDA a : a \in S)

Archs == {"x86", "x64"}

Deps == 1..NDeps

Builts == 1..NBuilt

\* ------------------------------------------------------------- the files
\* The files the script tests, deletes or creates by name: the bundle of the dmg
\* action under the root, and each msbuild output of each architecture, at the
\* root (where the zip reads it) and at the working directory (where build_vs
\* deletes, touches and tests it: Path(f) is relative).
DmgFile == <<"root", "dmg", "-", 0>>

BuiltFile(area, arch, i) == <<area, "built", arch, i>>

FsFiles == {DmgFile} \cup {BuiltFile(a, arch, i) : a \in {"root", "cwd"}, arch \in Archs, i \in Builts}

\* unknown: not looked at yet; stale: there since before this run; fresh: created
\* in this run.
Present(st) == st \in {"stale", "fresh"}

\* The file system as the script finds it: a file not looked at before is there
\* (obs[f] = "stale") or not, as the surroundings have it.
Observe(f, obs) == [x \in FsFiles |-> IF x \in DOMAIN obs THEN obs[x] ELSE f[x]]

Observations(f, S) == [{x \in S : f[x] = "unknown"} -> {"absent", "stale"}]

\* ------------------------------------------------------------- Executer
\* An Executer.run that forgets the dry flag.
ExecuterRunAlways(d, cmd) == [cmd |-> cmd, spawned |-> TRUE]

\* Executer.run: the call, and whether a process was started for it.
ExecuterRun(d, cmd) == [cmd |-> cmd, spawned |-> ~d]

\* Executer.check_output: the call, and whether a process was started for it.
ExecuterCheckOutput(d, cmd) == [cmd |-> cmd, spawned |-> ~d]

\* What check_output returns: dry_out in a dry run, the output of the process
\* otherwise.
CheckOutputValue(d, dryOut, out) == IF d THEN dryOut ELSE out

\* A started process exits with status 0 or not; a dry run starts none.
ExitOk(d) == IF d THEN {TRUE} ELSE BOOLEAN

\* ------------------------------------------------------------- artifacts
\* args.dist_path: --out, with "dry" appended in a dry run.
DistPath(d) == IF d THEN <<"dist", "dry">> ELSE <<"dist">>

Artifact(name, d) == [name |-> name, dir |-> DistPath(d)]

\* The artifacts each action registers when it completes.
ArtifactsOf(a) ==
  CASE a = "source" -> {"src-zip", "src-tar-gz", "src-tar-xz"}
    [] a = "dmg" -> {"dmg"}
    [] a = "msvc" -> {"VC-x86", "VC-x64", "VC-devel"}
    [] a = "mingw" -> {"mingw-devel-tar-gz", "mingw-devel-tar-xz"}
    [] OTHER -> {}

Registered == {artifacts[i].name : i \in DOMAIN artifacts}

\* A change the script itself makes to the file system: where, what, in which step.
Event(area, item, step) == [area |-> area, item |-> item, step |-> step]

NoArchives == [zip |-> <<>>, tgz |-> <<>>, txz |-> <<>>]

NoPacked == [a \in Archs |-> <<>>]

\* The destinations of the files build_vs copies out of the dependency archives:
\* a destination without a placeholder is the same file for both architectures,
\* one with @ARCH@ is a file of its own for each.
DstShared == <<"root", "dst", "-">>

DstArch(arch) == <<"root", "dst", arch>>

DstFiles == {DstShared} \cup {DstArch(arch) : arch \in Archs}

\* What the later steps of a run keep: the command that failed, the lines written
\* to the CI output file, the state of the tree, the Visual Studio lookup, the
\* copied dependency files and the development zip.
later == <<failure, ciOutput, treeStatus, vs, dsts, clobbered, develZip>>

Whitespace == {"\n", " "}

\* The content of a marker file: the commit the script wrote into it, with white
\* space before and after it.
MarkerTexts ==
  { pre \o <<h>> \o post : pre \in SeqsUpTo(Whitespace, 1),
                            h \in {"archive-commit", "c0ffee"},
                            post \in SeqsUpTo(Whitespace, 1) }

\* --commit on the command line.
CommitArgs == {"HEAD", "release-2.8.x"}

GoodMarkerText == <<"archive-commit", "\n">>

\* Templates of release-info.json: a path is a sequence of components, some of
\* them placeholders.
Placeholders == {"@ARCH@", "@PLATFORM@", "@CONFIGURATION@"}

\* VsArchPlatformConfig of main, lines 696-699: arch, platform, configuration.
ArchPlatforms ==
  << [arch |-> "x86", platform |-> "Win32", configuration |-> "Release"],
     [arch |-> "x64", platform |-> "x64", configuration |-> "Release"] >>

\* VsArchPlatformConfig.configure: every placeholder is replaced.
Configure(ap, t) ==
  [i \in 1..Len(t) |-> CASE t[i] = "@ARCH@" -> ap.arch
                          [] t[i] = "@PLATFORM@" -> ap.platform
                          [] t[i] = "@CONFIGURATION@" -> ap.configuration
                          [] OTHER -> t[i]]

\* "@" in s
HasAt(t) == \E i \in 1..Len(t) : t[i] \in Placeholders

\* Path(p).name
PathName(p) == p[Len(p)]

\* The paths and the "devel" destinations the manifests are made of.
PathTemplates == { <<"VisualC", "@PLATFORM@", "SDL2_image.lib">>, <<"include", "SDL_image.h">> }

DevelTemplates == { <<"lib", "@ARCH@">>, <<"include">> }

\* The most paths of one entry of a files list.
MaxPaths == 2

\* An entry of msvc.msbuild.files or of msvc.files: its paths and, when it has
\* one, its "devel" destination.
FilesEntries ==
  { [devel |-> d, paths |-> ps] :
      d \in SeqsUpTo(DevelTemplates, 1),
      ps \in SeqsUpTo(PathTemplates, MaxPaths) \ {<<>>} }

\* The most destination files the copy instructions of the msvc dependencies
\* give for one architecture.
MaxCopies == 2

\* What the members of the dependency archives that match a copy instruction
\* are copied to, in order: a destination with a placeholder (one file per
\* architecture) or without one (the same file for both).
CopyLists == SeqsUpTo({"shared", "perarch"}, MaxCopies)

\* release-info.json as the msvc steps read it.
Manifests ==
  { [copies |-> c, msbuild |-> m, files |-> f] :
      c \in CopyLists, m \in SeqsUpTo(FilesEntries, 1), f \in SeqsUpTo(FilesEntries, 1) }

\* A manifest like the one of the repository: the libraries go to lib/<arch>,
\* the headers to include.
GoodManifest ==
  [copies |-> <<"perarch">>,
   msbuild |-> <<[devel |-> <<<<"lib", "@ARCH@">>>>,
                  paths |-> <<<<"VisualC", "@PLATFORM@", "SDL2_image.lib">>>>]>>,
   files |-> <<[devel |-> <<<<"include">>>>, paths |-> <<<<"include", "SDL_image.h">>>>]>>]

\* VisualStudio.VS_YEAR_TO_VERSION
VsYears == {"2022", "2019", "2017", "2015", "2013"}

VS_YEAR_TO_VERSION ==
  [y \in VsYears |-> CASE y = "2022" -> 17 [] y = "2019" -> 16 [] y = "2017" -> 15
                        [] y = "2015" -> 14 [] OTHER -> 12]

\* --vs-year on the command line: absent, or a year (one of them unknown).
YearArgs == {<<>>, <<"2022">>, <<"2019">>, <<"1999">>}

\* The Visual Studio installations a machine may have.
InstalledSets == SUBSET {"2019", "2022"}

\* The inputs that only some steps read, as every specification but the one
\* about them has them.
PinnedRest ==
  /\ github = FALSE
  /\ vsYear = <<>>
  /\ commitArg = "HEAD"
  /\ markerText = GoodMarkerText
  /\ manifest = GoodManifest

\* ------------------------------------------------------------------ Init
\* The state of a run at its start, whatever the inputs are.
RunStart ==
  /\ run = 1
  /\ pc = "start"
  /\ exitCode = -1
  /\ commit = ""
  /\ version = <<>>
  /\ calls = <<>>
  /\ steps = <<>>
  /\ globs = <<>>
  /\ touched = {}
  /\ artifacts = <<>>
  /\ gitFiles = <<>>
  /\ fileTimes = EmptyMap
  /\ archives = NoArchives
  /\ prevArchives = NoArchives
  /\ packed = NoPacked
  /\ platform = "unknown"
  /\ cwdIsRoot = "unknown"
  /\ fs = [x \in FsFiles |-> "unknown"]
  /\ failure = <<>>
  /\ ciOutput = <<>>
  /\ treeStatus = "unknown"
  /\ vs = <<>>
  /\ dsts = [x \in DstFiles |-> "unknown"]
  /\ clobbered = {}
  /\ develZip = <<>>

GoodVersionText ==
  << [macro |-> "major", val |-> 2], [macro |-> "minor", val |-> 1],
     [macro |-> "micro", val |-> 1] >>

GoodTree == << Member(FileA, TRUE, 420), Member(FileB, TRUE, 493) >>

GoodHistory ==
  << [time |-> [utc |-> 2, off |-> 0], records |-> <<<<FileA>>>>],
     [time |-> [utc |-> 1, off |-> 3600], records |-> <<<<FileB>>>>] >>

\* Every command line and marker state, over one checkout.
Init ==
  /\ dry \in BOOLEAN
  /\ force \in BOOLEAN
  /\ overwrite \in BOOLEAN
  /\ \E S \in ActionSelections : actionList = ListOf(S)
  /\ PinnedRest
  /\ isArchive \in BOOLEAN
  /\ versionText \in {GoodVersionText, Tail(GoodVersionText)}
  /\ checks = <<FileA>>
  /\ tree = GoodTree
  /\ history = GoodHistory
  /\ RunStart

\* One command line that takes a run through the source action and the msvc
\* action on the checkout of Init.
InitPinned ==
  /\ dry = FALSE
  /\ force = TRUE
  /\ overwrite = TRUE
  /\ actionList = <<"source", "msvc">>
  /\ PinnedRest
  /\ isArchive = FALSE
  /\ versionText = GoodVersionText
  /\ checks = <<FileA>>
  /\ tree = GoodTree
  /\ history = GoodHistory
  /\ RunStart

\* The checks a manifest may list.
CheckLists == {<<>>, <<FileA>>, <<FileG>>, <<FileA, FileB>>}

\* The source action on every tree, history and checks list within the bounds.
InitSource ==
  \/ InitPinned
  \/ /\ dry = FALSE
     /\ force = TRUE
     /\ overwrite = TRUE
     /\ actionList = <<"source">>
     /\ PinnedRest
     /\ isArchive = FALSE
     /\ versionText = GoodVersionText
     /\ checks \in CheckLists
     /\ tree \in Trees
     /\ history \in Histories
     /\ RunStart

\* Every version file within the bounds.
InitVersion ==
  \/ InitPinned
  \/ /\ dry \in BOOLEAN
     /\ force = TRUE
     /\ overwrite = TRUE
     /\ actionList = <<"download">>
     /\ PinnedRest
     /\ isArchive = FALSE
     /\ versionText \in VersionTexts
     /\ checks = <<FileA>>
     /\ tree = GoodTree
     /\ history = GoodHistory
     /\ RunStart

\* The runs of a CI job: every selection of actions with --github, dry or not.
InitCi ==
  \/ InitPinned
  \/ /\ dry \in BOOLEAN
     /\ force = TRUE
     /\ overwrite = TRUE
     /\ \E S \in ActionSelections : actionList = ListOf(S)
     /\ github = TRUE
     /\ vsYear = <<>>
     /\ commitArg = "HEAD"
     /\ markerText = GoodMarkerText
     /\ manifest = GoodManifest
     /\ isArchive = FALSE
     /\ versionText = GoodVersionText
     /\ checks = <<FileA>>
     /\ tree = GoodTree
     /\ history = GoodHistory
     /\ RunStart

\* The msvc action with every --vs-year.
InitVs ==
  \/ InitPinned
  \/ /\ dry \in BOOLEAN
     /\ force = TRUE
     /\ overwrite = TRUE
     /\ actionList = <<"msvc">>
     /\ github = FALSE
     /\ vsYear \in YearArgs
     /\ commitArg = "HEAD"
     /\ markerText = GoodMarkerText
     /\ manifest = GoodManifest
     /\ isArchive = FALSE
     /\ versionText = GoodVersionText
     /\ checks = <<FileA>>
     /\ tree = GoodTree
     /\ history = GoodHistory
     /\ RunStart

\* The msvc action with every list of dependency copies, with --overwrite and
\* without.
InitMsvc ==
  \/ InitPinned
  \/ /\ dry \in BOOLEAN
     /\ force = TRUE
     /\ overwrite \in BOOLEAN
     /\ actionList = <<"msvc">>
     /\ github = FALSE
     /\ vsYear = <<>>
     /\ commitArg = "HEAD"
     /\ markerText = GoodMarkerText
     /\ manifest \in {[GoodManifest EXCEPT !.copies = c] : c \in CopyLists}
     /\ isArchive = FALSE
     /\ versionText = GoodVersionText
     /\ checks = <<FileA>>
     /\ tree = GoodTree
     /\ history = GoodHistory
     /\ RunStart

\* The msvc action of a dry run with every files list of the manifest.
InitDevel ==
  \/ InitPinned
  \/ /\ dry = TRUE
     /\ force = TRUE
     /\ overwrite = TRUE
     /\ actionList = <<"msvc">>
     /\ github = FALSE
     /\ vsYear = <<>>
     /\ commitArg = "HEAD"
     /\ markerText = GoodMarkerText
     /\ manifest \in {m \in Manifests : m.copies = <<>>}
     /\ isArchive = FALSE
     /\ versionText = GoodVersionText
     /\ checks = <<FileA>>
     /\ tree = GoodTree
     /\ history = GoodHistory
     /\ RunStart

\* A live checkout or an unpacked archive, with every marker text and --commit,
\* for the source action or the msvc action.
InitCommit ==
  \/ InitPinned
  \/ /\ dry \in BOOLEAN
     /\ force = TRUE
     /\ overwrite = TRUE
     /\ actionList \in {<<"source">>, <<"msvc">>}
     /\ github = FALSE
     /\ vsYear = <<>>
     /\ commitArg \in CommitArgs
     /\ markerText \in MarkerTexts
     /\ manifest = GoodManifest
     /\ isArchive \in BOOLEAN
     /\ versionText = GoodVersionText
     /\ checks = <<FileA>>
     /\ tree = GoodTree
     /\ history = GoodHistory
     /\ RunStart

\* The most --actions flags of a command line.
MaxArgs == 3

\* Every list of --actions flags, in any order, with repetitions.
InitOrder ==
  \/ InitPinned
  \/ /\ dry \in BOOLEAN
     /\ force = TRUE
     /\ overwrite = TRUE
     /\ actionList \in SeqsUpTo(ActionNames, MaxArgs) \ {<<>>}
     /\ PinnedRest
     /\ isArchive = FALSE
     /\ versionText = GoodVersionText
     /\ checks = <<FileA>>
     /\ tree = GoodTree
     /\ history = GoodHistory
     /\ RunStart

\* ------------------------------------------------------------ the steps
\* An abort that reports success.
AbortQuietly(code) ==
  /\ pc' = "aborted"
  /\ exitCode' = 0

\* An exception that leaves main, or parser.error: the run ends with the status.
Abort(code) ==
  /\ pc' = "aborted"
  /\ exitCode' = code

\* subprocess.run(check=True) and subprocess.check_output raise when the command
\* exits with a non-zero status: the command that failed is the last one of cs,
\* and arts are the artifacts registered until then.
Failed(cs, arts) == <<[at |-> Len(cs), arts |-> Len(arts)]>>

\* str.strip()
RECURSIVE StripLeft(_)
StripLeft(text) ==
  IF text # <<>> /\ Head(text) \in Whitespace THEN StripLeft(Tail(text)) ELSE text

RECURSIVE StripRight(_)
StripRight(text) ==
  IF text # <<>> /\ text[Len(text)] \in Whitespace
  THEN StripRight(SubSeq(text, 1, Len(text) - 1)) ELSE text

Strip(text) == StripRight(StripLeft(text))

\* A text read without strip().
StrippedRaw(text) == Head(text)

\* root_git_hash_path.read_text().strip(), check_output(...).strip(): what is
\* left of a text of one word.
Stripped(text) == Head(Strip(text))

\* What git rev-parse prints for the --commit argument: the hash and a newline.
RevParse(arg) == <<IF arg = "HEAD" THEN "rev-parsed" ELSE "rev-parsed-" \o arg, "\n">>

\* main, lines 604-630: the commit is the content of the marker file when there
\* is one, the result of git rev-parse otherwise.
Start ==
  /\ pc = "start"
  /\ IF isArchive
     THEN /\ commit' = Stripped(markerText)
          /\ pc' = "construct"
          /\ UNCHANGED <<calls, exitCode, failure>>
     ELSE \E ok \in ExitOk(dry) :
          /\ calls' = Append(calls, ExecuterCheckOutput(dry, "git rev-parse"))
          /\ IF ok
             THEN /\ commit' = Stripped(CheckOutputValue(dry, <<"e5812a9f">>, RevParse(commitArg)))
                  /\ pc' = "construct"
                  /\ UNCHANGED <<exitCode, failure>>
             ELSE /\ Abort(1)
                  /\ failure' = Failed(calls', artifacts)
                  /\ UNCHANGED commit
  /\ UNCHANGED <<inputs, platform, cwdIsRoot, fs, run, version, steps, globs, touched,
                 artifacts, gitFiles, fileTimes, archives, prevArchives, packed,
                 ciOutput, treeStatus, vs, dsts, clobbered, develZip>>

\* main, lines 638-648: Releaser.__init__ resolves the version.
Construct ==
  /\ pc = "construct"
  /\ version' = ExtractSdlVersion(versionText)
  /\ IF version' = <<>> THEN Abort(1) ELSE pc' = "cleancheck" /\ UNCHANGED exitCode
  /\ UNCHANGED <<inputs, platform, cwdIsRoot, fs, run, commit, calls, steps, globs,
                 touched, artifacts, gitFiles, fileTimes, archives, prevArchives, packed, later>>

\* A check that lets every tree pass.
ProceedsAlways(isDirty, f) == TRUE

\* if porcelain_status: ... if not args.force: raise
Proceeds(isDirty, f) == ~isDirty \/ f

\* main, lines 650-658: the clean-tree check of a live checkout.
CleanCheck ==
  /\ pc = "cleancheck"
  /\ IF isArchive
     THEN pc' = "prepare" /\ UNCHANGED <<calls, exitCode, failure, treeStatus>>
     ELSE \E ok \in ExitOk(dry), dirty \in BOOLEAN :
          LET isDirty == CheckOutputValue(dry, FALSE, dirty) IN
          /\ calls' = Append(calls, ExecuterCheckOutput(dry, "git status"))
          /\ treeStatus' = (IF ~ok THEN treeStatus ELSE IF isDirty THEN "dirty" ELSE "clean")
          /\ failure' = (IF ok THEN failure ELSE Failed(calls', artifacts))
          /\ IF ok /\ Proceeds(isDirty, force)
             THEN pc' = "prepare" /\ UNCHANGED exitCode
             ELSE Abort(1)
  /\ UNCHANGED <<inputs, platform, cwdIsRoot, fs, run, commit, version, steps, globs,
                 touched, artifacts, gitFiles, fileTimes, archives, prevArchives, packed,
                 ciOutput, vs, dsts, clobbered, develZip>>

\* An output directory made under the project root.
PrepareEventsInRoot == {Event("root", "mkdir", "prepare")}

\* Releaser.prepare: the output directory is created, in a dry run too.
PrepareEvents == {Event("dist", "mkdir", "prepare")}

Prepare ==
  /\ pc = "prepare"
  /\ touched' = touched \cup PrepareEvents
  /\ pc' = "download"
  /\ UNCHANGED <<inputs, platform, cwdIsRoot, fs, run, exitCode, commit, version, calls,
                 steps, globs, artifacts, gitFiles, fileTimes, archives, prevArchives, packed, later>>

\* The commands of download_dependencies, in order: per dependency the release
\* query (check_output) and the download (run).
RECURSIVE DownloadCalls(_, _)
DownloadCalls(d, n) ==
  IF n = 0 THEN <<>>
  ELSE DownloadCalls(d, n - 1)
       \o << ExecuterCheckOutput(d, "gh release list"), ExecuterRun(d, "gh release download") >>

\* Releaser.download_dependencies. The dependency folder is wiped and re-made, in
\* a dry run too; the query has no dry_out, so a dry run gets None and fails on
\* None.strip() after the first call. k commands exit with status 0.
Download ==
  /\ pc = "download"
  /\ IF "download" \notin actions
     THEN pc' = "verify" /\ UNCHANGED <<calls, steps, touched, exitCode, failure>>
     ELSE /\ steps' = Append(steps, "download")
          /\ touched' = touched \cup {Event("deps", "rmtree", "download"),
                                      Event("deps", "mkdir", "download")}
          /\ LET all == DownloadCalls(dry, NDeps) IN
             IF dry
             THEN /\ calls' = calls \o SubSeq(all, 1, 1)
                  /\ Abort(1)
                  /\ UNCHANGED failure
             ELSE \E k \in 0..Len(all) :
                  /\ calls' = calls \o SubSeq(all, 1, IF k < Len(all) THEN k + 1 ELSE k)
                  /\ IF k = Len(all) THEN pc' = "verify" /\ UNCHANGED <<exitCode, failure>>
                     ELSE Abort(1) /\ failure' = Failed(calls', artifacts)
  /\ UNCHANGED <<inputs, platform, cwdIsRoot, fs, run, commit, version, globs,
                 artifacts, gitFiles, fileTimes, archives, prevArchives, packed,
                 ciOutput, treeStatus, vs, dsts, clobbered, develZip>>

\* The globs of verify_dependencies in the order the code evaluates them.
Families == <<"mingw", "dmg", "msvc">>

GlobOrder == [i \in 1..(NDeps * 3) |-> <<((i - 1) \div 3) + 1, Families[((i - 1) % 3) + 1]>>]

\* A verification that only rejects an empty match list.
AtLeastOne(n) == n >= 1

\* assert len(matches) == 1
ExactlyOne(n) == n = 1

\* What verify_dependencies sees: the number of matches of each glob it evaluates,
\* up to and including the first one its assertion rejects.
GlobRuns ==
  { g \in SeqsUpTo(0..MaxMatch, Len(GlobOrder)) :
      /\ \A i \in 1..(Len(g) - 1) : ExactlyOne(g[i])
      /\ Len(g) = Len(GlobOrder) \/ (Len(g) > 0 /\ ~ExactlyOne(g[Len(g)])) }

\* Releaser.verify_dependencies, which main calls in every run.
Verify ==
  /\ pc = "verify"
  /\ steps' = Append(steps, "verify")
  /\ \E g \in GlobRuns :
     /\ globs' = g
     /\ IF \A i \in DOMAIN g : ExactlyOne(g[i])
        THEN pc' = "source" /\ UNCHANGED exitCode
        ELSE Abort(1)
  /\ UNCHANGED <<inputs, platform, cwdIsRoot, fs, run, commit, version, calls,
                 touched, artifacts, gitFiles, fileTimes, archives, prevArchives, packed, later>>

\* f"{self.project}-{self.version}"
ArchiveBase(v) == [project |-> "SDL2_image", version |-> v]

\* The three source archives of a run that is not dry: the zip and the two tars
\* over the same git_files; the gzip header's MTIME, written by the gzip writer
\* from the clock (the run), is overwritten afterwards.
SourceArchives(d, base, files, clock) ==
  [zip |-> <<[entries |-> IF d THEN <<>> ELSE ZipOf(base, files)]>>,
   tgz |-> <<[mtime |-> ZeroGzipMtime(clock), entries |-> IF d THEN <<>> ELSE TarOf(base, files)]>>,
   txz |-> <<[entries |-> IF d THEN <<>> ELSE TarOf(base, files)]>>]

SourceArtifacts(d) ==
  << Artifact("src-zip", d), Artifact("src-tar-gz", d), Artifact("src-tar-xz", d) >>

\* main, lines 678-682, and Releaser.create_source_archives.
Source ==
  /\ pc = "source"
  /\ IF "source" \notin actions
     THEN pc' = "dmg" /\ UNCHANGED <<calls, steps, touched, exitCode, artifacts, gitFiles,
                                     fileTimes, archives, failure>>
     ELSE IF isArchive
     THEN Abort(1) /\ UNCHANGED <<calls, steps, touched, artifacts, gitFiles, fileTimes,
                                  archives, failure>>
     ELSE
       \E okArchive \in ExitOk(dry), okLog \in ExitOk(dry) :
       LET archiveCall == ExecuterCheckOutput(dry, "git archive")
           logCall == ExecuterCheckOutput(dry, "git log")
           archiveOut == CheckOutputValue(dry, <<>>, <<tree>>)
           lines == CheckOutputValue(dry, DryLogOut, GitLogOut(history))
           \* tarfile.open and the checks come before git log is called
           opened == okArchive /\ archiveOut # <<>>
                     /\ ChecksExist(checks, FileNames(archiveOut[1]))
           gc == IF opened /\ okLog THEN GetGitContents(archiveOut, checks, lines)
                 ELSE [ok |-> FALSE, items |-> <<>>]
           ft == IF opened /\ okLog THEN GetFileTimes(FileNames(archiveOut[1]), lines)
                 ELSE [ok |-> FALSE, times |-> EmptyMap]
           \* max() of no item raises
           done == gc.ok /\ gc.items # <<>>
       IN /\ steps' = Append(steps, "source")
          /\ fileTimes' = ft.times
          /\ calls' = calls \o <<archiveCall>> \o (IF opened THEN <<logCall>> ELSE <<>>)
          /\ failure' = (IF ~okArchive \/ (opened /\ ~okLog)
                         THEN Failed(calls', artifacts) ELSE failure)
          /\ IF done
             THEN /\ gitFiles' = GitFiles(gc.items, version, commit)
                  /\ archives' = SourceArchives(dry, ArchiveBase(version), gitFiles', run)
                  /\ artifacts' = artifacts \o SourceArtifacts(dry)
                  /\ touched' = touched \cup {Event("dist", "source archives", "source")}
                  /\ pc' = "dmg"
                  /\ UNCHANGED exitCode
             ELSE /\ Abort(1)
                  /\ UNCHANGED <<touched, artifacts, gitFiles, archives>>
  /\ UNCHANGED <<inputs, platform, cwdIsRoot, fs, run, commit, version, globs,
                 prevArchives, packed, ciOutput, treeStatus, vs, dsts, clobbered,
                 develZip>>

Platforms == {"Linux", "Darwin", "Windows"}

\* platform.system(), the same at every call.
PlatformSeen == IF platform = "unknown" THEN Platforms ELSE {platform}

\* main, lines 684-688, and Releaser.create_dmg.
Dmg ==
  /\ pc = "dmg"
  /\ IF "dmg" \notin actions
     THEN pc' = "findvs" /\ UNCHANGED <<platform, fs, calls, steps, touched, exitCode,
                                        artifacts, failure>>
     ELSE
       \E p \in PlatformSeen, projectIsDir \in BOOLEAN, ok \in ExitOk(dry),
          made \in BOOLEAN, obs \in Observations(fs, {DmgFile}) :
       LET f0 == Observe(fs, obs)
           \* dmg_in.unlink(missing_ok=True)
           f1 == [f0 EXCEPT ![DmgFile] = "absent"]
           \* xcodebuild makes the bundle or not; the dry run touches it
           f2 == IF dry \/ (ok /\ made) THEN [f1 EXCEPT ![DmgFile] = "fresh"] ELSE f1
           unlinked == IF Present(f0[DmgFile]) THEN {Event("root", "dmg unlink", "dmg")} ELSE {}
           touchedDry == IF dry THEN {Event("root", "dmg touch", "dmg")} ELSE {}
       IN IF ~dry /\ p # "Darwin"
          THEN /\ platform' = p
               /\ Abort(2)
               /\ UNCHANGED <<fs, calls, steps, touched, artifacts, failure>>
          ELSE
            /\ platform' = (IF dry THEN platform ELSE p)
            /\ steps' = Append(steps, "dmg")
            /\ IF ~projectIsDir
               THEN Abort(1) /\ UNCHANGED <<fs, calls, touched, artifacts, failure>>
               ELSE /\ calls' = Append(calls, ExecuterRun(dry, "xcodebuild"))
                    /\ failure' = (IF ok THEN failure ELSE Failed(calls', artifacts))
                    /\ IF ~ok
                       THEN /\ fs' = f1
                            /\ touched' = touched \cup unlinked
                            /\ Abort(1)
                            /\ UNCHANGED artifacts
                       ELSE /\ fs' = f2
                            /\ IF Present(f2[DmgFile])
                               THEN /\ artifacts' = Append(artifacts, Artifact("dmg", dry))
                                    /\ touched' = touched \cup unlinked \cup touchedDry
                                                    \cup {Event("dist", "dmg copy", "dmg")}
                                    /\ pc' = "findvs"
                                    /\ UNCHANGED exitCode
                               ELSE /\ touched' = touched \cup unlinked \cup touchedDry
                                    /\ Abort(1)
                                    /\ UNCHANGED artifacts
  /\ UNCHANGED <<inputs, cwdIsRoot, run, commit, version, globs, gitFiles, fileTimes, archives,
                 prevArchives, packed, ciOutput, treeStatus, vs, dsts, clobbered, develZip>>

\* The year main hands to VisualStudio (line 694): the constructor is called with
\* the executer alone, so year keeps its default, None, whatever --vs-year says.
YearPassed(argYear) == <<>>

\* VisualStudio.find_vsdevcmd: the vswhere query for a year; none for a year that
\* is not in VS_YEAR_TO_VERSION (the method logs an error and returns None).
VswhereSpec(year) ==
  IF year = <<>> THEN <<[latest |-> TRUE, range |-> <<>>]>>
  ELSE IF year[1] \notin VsYears THEN <<>>
  ELSE <<[latest |-> TRUE,
          range |-> <<VS_YEAR_TO_VERSION[year[1]], VS_YEAR_TO_VERSION[year[1]] + 1>>]>>

\* The installations a query is about: all of them, or those of the range.
InRange(q, installed) ==
  {y \in installed : q.range = <<>>
                     \/ (q.range[1] <= VS_YEAR_TO_VERSION[y] /\ VS_YEAR_TO_VERSION[y] < q.range[2])}

\* vswhere -latest: the installation of the greatest version among them, if any.
Located(q, installed) ==
  LET c == InRange(q, installed)
  IN IF c = {} THEN <<>>
     ELSE <<CHOOSE y \in c : \A z \in c : VS_YEAR_TO_VERSION[z] <= VS_YEAR_TO_VERSION[y]>>

\* The commands of VisualStudio.__init__: find_vsdevcmd, then find_msbuild.
VsCalls(d, year) ==
  (IF VswhereSpec(year) = <<>> THEN <<>>
   ELSE <<ExecuterCheckOutput(d, "vswhere installationPath")>>)
  \o <<ExecuterCheckOutput(d, "vswhere MSBuild.exe")>>

\* main, lines 690-694, and VisualStudio.__init__: the two vswhere queries; the
\* paths they give must exist (a dry run creates the two files under /tmp). k
\* commands exit with status 0.
FindVS ==
  /\ pc = "findvs"
  /\ IF "msvc" \notin actions
     THEN pc' = "mingw" /\ UNCHANGED <<platform, calls, steps, touched, exitCode, failure, vs>>
     ELSE
       \E p \in PlatformSeen, k \in (IF dry THEN {2} ELSE 0..2), pathsExist \in BOOLEAN,
          installed \in (IF dry THEN {{}} ELSE InstalledSets) :
       LET year == YearPassed(vsYear)
           q == VswhereSpec(year)
           all == VsCalls(dry, year)
           found == IF q = <<>> THEN <<>>
                    ELSE IF dry THEN <<"/tmp">> ELSE Located(q[1], installed)
       IN IF ~dry /\ p # "Windows"
          THEN /\ platform' = p
               /\ Abort(2)
               /\ UNCHANGED <<calls, steps, touched, failure, vs>>
          ELSE
            /\ platform' = (IF dry THEN platform ELSE p)
            /\ steps' = Append(steps, "findvs")
            /\ calls' = calls \o SubSeq(all, 1, IF k < Len(all) THEN k + 1 ELSE Len(all))
            /\ failure' = (IF k < Len(all) THEN Failed(calls', artifacts) ELSE failure)
            /\ vs' = (IF k >= 1 /\ q # <<>> THEN <<[spec |-> q[1], located |-> found]>> ELSE vs)
            /\ touched' = (IF dry /\ pathsExist
                           THEN touched \cup {Event("tmp", "vs stubs", "msvc")}
                           ELSE touched)
            /\ IF k >= Len(all) /\ pathsExist /\ (q = <<>> \/ found # <<>>)
               THEN pc' = "vs_x86" /\ UNCHANGED exitCode
               ELSE Abort(1)
  /\ UNCHANGED <<inputs, cwdIsRoot, fs, run, commit, version, globs, artifacts, gitFiles, fileTimes,
                 archives, prevArchives, packed, ciOutput, treeStatus, dsts, clobbered,
                 develZip>>

\* Where a path the script leaves relative lands: in the working directory, which
\* is the root or another directory.
CwdArea(cw) == IF cw = "yes" THEN "root" ELSE "cwd"

CwdSeen == IF cwdIsRoot = "unknown" THEN {"yes", "no"} ELSE {cwdIsRoot}

\* built_paths of build_vs: Path(arch_platform.configure(f)), relative paths.
BuiltPaths(cw, arch) == {BuiltFile(CwdArea(cw), arch, i) : i \in Builts}

\* The files build_vs packs: self.root / p for the same manifest paths (every
\* msbuild file of the manifest has a "lib" destination).
PackedPaths(arch) == {BuiltFile("root", arch, i) : i \in Builts}

SetAll(f, S, st) == [x \in FsFiles |-> IF x \in S THEN st ELSE f[x]]

\* A copy that never refuses to replace a file.
RefusesNever(exists, ow) == FALSE

\* build_vs, lines 480-483: if dst.exists(): ... if not self.overwrite: raise
Refuses(exists, ow) == exists /\ ~ow

\* dst of build_vs for one copied member.
DstOf(c, arch) == IF c = "shared" THEN DstShared ELSE DstArch(arch)

\* The copy loop of build_vs over the matching members, from the state st of the
\* destination files: a file is written (with the architecture as its content)
\* unless it exists and --overwrite is not given, which ends the loop.
RECURSIVE Extract(_, _, _, _)
Extract(copies, arch, ow, st) ==
  IF copies = <<>> \/ st.refused THEN st
  ELSE LET dst == DstOf(Head(copies), arch)
           exists == st.dsts[dst] # "absent"
       IN IF Refuses(exists, ow) THEN [st EXCEPT !.refused = TRUE]
          ELSE Extract(Tail(copies), arch, ow,
                       [st EXCEPT !.dsts[dst] = arch,
                                  !.clobbered = IF exists THEN @ \cup {dst} ELSE @,
                                  !.wrote = TRUE])

\* What the run finds at the destinations it has not looked at yet.
DstObservations(d, S) == [{x \in S : d[x] = "unknown"} -> {"absent", "old"}]

\* Releaser.build_vs for one architecture.
BuildVs(arch, here, next) ==
  /\ pc = here
  /\ \E cw \in CwdSeen, ok \in ExitOk(dry),
        made \in (IF dry THEN {{}} ELSE SUBSET Builts) :
     \E obs \in Observations(fs, PackedPaths(arch) \cup BuiltPaths(cw, arch)),
        seen \in DstObservations(dsts, {DstOf(c, arch) : c \in Range(manifest.copies)}) :
     LET checked == BuiltPaths(cw, arch)
         ext == Extract(manifest.copies, arch, overwrite,
                        [dsts |-> [x \in DstFiles |-> IF x \in DOMAIN seen THEN seen[x] ELSE dsts[x]],
                         clobbered |-> {}, refused |-> FALSE, wrote |-> FALSE])
         f0 == Observe(fs, obs)
         \* b.unlink(missing_ok=True) for b in built_paths
         f1 == SetAll(f0, checked, "absent")
         \* msbuild runs in the root and (re)builds some of the outputs there
         f2 == IF dry THEN f1
               ELSE SetAll(f1, {BuiltFile("root", arch, i) : i \in made}, "fresh")
         \* the dry run touches built_paths
         f3 == IF dry THEN SetAll(f2, checked, "fresh") ELSE f2
         refused == ext.refused
         extracted == IF ext.wrote THEN {Event("root", "dependency copy", "msvc")} ELSE {}
         unlinked == IF \E x \in checked : Present(f0[x])
                     THEN {Event(CwdArea(cw), "output unlink", "msvc")} ELSE {}
         before == {Event("deps", "rmtree msvc-deps", "msvc")} \cup extracted
         built == before \cup unlinked \cup {Event("tmp", "cmd.bat", "msvc")}
         allBuilt == \A x \in checked : Present(f3[x])
         allPacked == \A x \in PackedPaths(arch) : Present(f3[x])
         touches == {Event(CwdArea(cw), "output touch", "msvc")}
     IN /\ cwdIsRoot' = cw
        /\ steps' = Append(steps, here)
        /\ dsts' = ext.dsts
        /\ clobbered' = clobbered \cup ext.clobbered
        /\ IF refused
           THEN /\ touched' = touched \cup before
                /\ Abort(1)
                /\ UNCHANGED <<fs, calls, artifacts, packed, failure>>
           ELSE
             /\ calls' = Append(calls, ExecuterRun(dry, "cmd.exe msbuild"))
             /\ failure' = (IF ok THEN failure ELSE Failed(calls', artifacts))
             /\ IF ~ok
                THEN /\ fs' = f2
                     /\ touched' = touched \cup built
                     /\ Abort(1)
                     /\ UNCHANGED <<artifacts, packed>>
                ELSE
                  /\ fs' = f3
                  /\ IF ~allBuilt
                     THEN /\ touched' = touched \cup built
                          /\ Abort(1)
                          /\ UNCHANGED <<artifacts, packed>>
                     ELSE IF ~allPacked
                     THEN /\ touched' = touched \cup built \cup touches
                                          \cup {Event("dist", "VC zip", "msvc")}
                          /\ Abort(1)
                          /\ UNCHANGED <<artifacts, packed>>
                     ELSE /\ touched' = touched \cup built \cup touches
                                          \cup {Event("dist", "VC zip", "msvc")}
                          /\ packed' = [packed EXCEPT ![arch] = [i \in Builts |-> f3[BuiltFile("root", arch, i)]]]
                          /\ artifacts' = Append(artifacts, Artifact("VC-" \o arch, dry))
                          /\ pc' = next
                          /\ UNCHANGED exitCode
  /\ UNCHANGED <<inputs, platform, run, commit, version, globs, gitFiles, fileTimes, archives,
                 prevArchives, ciOutput, treeStatus, vs, develZip>>

BuildVsX86 == BuildVs("x86", "vs_x86", "vs_x64")

BuildVsX64 == BuildVs("x64", "vs_x64", "vs_devel")

\* zf.write(src, arcname=...): the file an entry is read from and its name.
DevelEntry(src, arcname) == [src |-> src, arcname |-> arcname]

\* The inner loop over arch_platforms (lines 557-560 and 567-570): one entry per
\* architecture, from the configured path to the configured destination.
PerArch(base, devel, path) ==
  [i \in 1..Len(ArchPlatforms) |->
     DevelEntry(<<"root">> \o Configure(ArchPlatforms[i], path),
                <<base>> \o Configure(ArchPlatforms[i], devel)
                         \o <<PathName(Configure(ArchPlatforms[i], path))>>)]

\* One path of an entry of msvc.msbuild.files (lines 556-562). st.p is the local
\* variable p of build_vs_devel, <<>> while nothing is bound to it: the branch
\* without a placeholder reads p, not path, and raises when p is unbound.
MsbuildPath(base, devel, path, st) ==
  IF HasAt(path) \/ HasAt(devel)
  THEN [st EXCEPT !.entries = @ \o PerArch(base, devel, path),
                  !.p = <<Configure(ArchPlatforms[Len(ArchPlatforms)], path)>>]
  ELSE IF st.p = <<>> THEN [st EXCEPT !.raised = TRUE]
  ELSE [st EXCEPT !.entries = Append(@, DevelEntry(<<"root">> \o st.p[1],
                                                   <<base>> \o devel \o <<PathName(st.p[1])>>))]

\* One path of an entry of msvc.files (lines 566-572).
ExtraPath(base, devel, path, st) ==
  IF HasAt(path) \/ HasAt(devel)
  THEN [st EXCEPT !.entries = @ \o PerArch(base, devel, path),
                  !.p = <<Configure(ArchPlatforms[Len(ArchPlatforms)], path)>>]
  ELSE [st EXCEPT !.entries = Append(@, DevelEntry(<<"root">> \o path,
                                                   <<base>> \o devel \o <<PathName(path)>>))]

\* The paths of one entry, in order; kind tells the two lists apart.
RECURSIVE DevelPaths(_, _, _, _, _)
DevelPaths(kind, base, devel, paths, st) ==
  IF paths = <<>> \/ st.raised THEN st
  ELSE DevelPaths(kind, base, devel, Tail(paths),
                  IF kind = "msbuild" THEN MsbuildPath(base, devel, Head(paths), st)
                  ELSE ExtraPath(base, devel, Head(paths), st))

\* The entries of one list, in order: if "devel" in ...
RECURSIVE DevelFiles(_, _, _, _)
DevelFiles(kind, base, list, st) ==
  IF list = <<>> \/ st.raised THEN st
  ELSE DevelFiles(kind, base, Tail(list),
                  IF Head(list).devel = <<>> THEN st
                  ELSE DevelPaths(kind, base, Head(list).devel[1], Head(list).paths, st))

\* The two loops of build_vs_devel, the msbuild files first.
DevelContents(base, m) ==
  DevelFiles("files", base, m.files,
             DevelFiles("msbuild", base, m.msbuild,
                        [entries |-> <<>>, p |-> <<>>, raised |-> FALSE]))

\* datetime.datetime(year=2024, month=4, day=1), as date_time
HashTime == [year |-> 2024, month |-> 4, day |-> 1, hour |-> 0, minute |-> 0, second |-> 0]

\* Releaser._zip_add_git_hash: the marker entry, f"{root}/{GIT_HASH_FILENAME}".
ZipAddGitHash(root, c) ==
  [name |-> ArcName(root, GIT_HASH_FILENAME), date_time |-> HashTime,
   external_attr |-> ShiftLeft16(33188), data |-> <<"text", c>>]

\* Releaser.build_vs_devel: the development zip reads files under the root and
\* fails when one is missing; the marker is added last.
BuildVsDevel ==
  /\ pc = "vs_devel"
  /\ \E filesExist \in BOOLEAN :
     LET c == DevelContents(ArchiveBase(version), manifest)
         missing == ~filesExist /\ c.entries # <<>>
     IN /\ steps' = Append(steps, "vs_devel")
        /\ touched' = touched \cup {Event("dist", "VC devel zip", "msvc")}
        /\ IF c.raised \/ missing
           THEN /\ develZip' = (IF missing THEN <<>> ELSE c.entries)
                /\ Abort(1)
                /\ UNCHANGED artifacts
           ELSE /\ develZip' = Append(c.entries, ZipAddGitHash(ArchiveBase(version), commit))
                /\ artifacts' = Append(artifacts, Artifact("VC-devel", dry))
                /\ pc' = "mingw"
                /\ UNCHANGED exitCode
  /\ UNCHANGED <<inputs, platform, cwdIsRoot, fs, run, commit, version, calls, globs,
                 gitFiles, fileTimes, archives, prevArchives, packed, failure, ciOutput,
                 treeStatus, vs, dsts, clobbered>>

\* The commands of create_mingw_archives, in order: make install-package per
\* dependency and triplet, then configure, make and make install per architecture.
RECURSIVE InstallPackageCalls(_, _)
InstallPackageCalls(d, n) ==
  IF n = 0 THEN <<>>
  ELSE InstallPackageCalls(d, n - 1)
       \o << ExecuterRun(d, "make install-package i686"),
             ExecuterRun(d, "make install-package x86_64") >>

MingwBuildCalls(d) ==
  << ExecuterRun(d, "configure i686"), ExecuterRun(d, "make i686"),
     ExecuterRun(d, "make install i686"), ExecuterRun(d, "configure x86_64"),
     ExecuterRun(d, "make x86_64"), ExecuterRun(d, "make install x86_64") >>

\* main, lines 705-706, and Releaser.create_mingw_archives. The dependency prefix
\* is wiped and re-made and the dependency archives are unpacked, in a dry run too;
\* bin and lib/pkgconfig of the prefix come from make install-package alone.
Mingw ==
  /\ pc = "mingw"
  /\ IF "mingw" \notin actions
     THEN pc' = "summary" /\ UNCHANGED <<calls, steps, touched, exitCode, artifacts, failure>>
     ELSE
       \E unpacked \in BOOLEAN, prefixMade \in BOOLEAN, filesExist \in BOOLEAN,
          k \in (IF dry THEN {2 * NDeps + 6} ELSE 0..(2 * NDeps + 6)) :
       LET installs == InstallPackageCalls(dry, NDeps)
           builds == MingwBuildCalls(dry)
           all == installs \o builds
           prefixEvents == {Event("deps", "rmtree mingw-deps", "mingw"),
                            Event("deps", "mkdir mingw-deps", "mingw")}
           \* assert dep_binpath.is_dir() and dep_pkgconfig.is_dir()
           prefixOk == ~dry /\ prefixMade
           reached == IF ~unpacked THEN 0
                      ELSE IF k < Len(installs) THEN k + 1
                      ELSE IF ~prefixOk THEN Len(installs)
                      ELSE IF k < Len(all) THEN k + 1 ELSE k
           buildEvents == IF reached > Len(installs)
                          THEN {Event("root", "build-mingw", "mingw")} ELSE {}
           done == unpacked /\ prefixOk /\ k = Len(all) /\ filesExist
           \* the last command that was started exited with a non-zero status
           cmdFailed == k < Len(all) /\ reached = k + 1
       IN /\ steps' = Append(steps, "mingw")
          /\ calls' = calls \o SubSeq(all, 1, reached)
          /\ failure' = (IF cmdFailed THEN Failed(calls', artifacts) ELSE failure)
          /\ IF done
             THEN /\ touched' = touched \cup prefixEvents \cup buildEvents
                                  \cup {Event("dist", "mingw tars", "mingw")}
                  /\ artifacts' = artifacts \o << Artifact("mingw-devel-tar-gz", dry),
                                                  Artifact("mingw-devel-tar-xz", dry) >>
                  /\ pc' = "summary"
                  /\ UNCHANGED exitCode
             ELSE /\ touched' = touched \cup prefixEvents \cup buildEvents
                  /\ Abort(1)
                  /\ UNCHANGED artifacts
  /\ UNCHANGED <<inputs, platform, cwdIsRoot, fs, run, commit, version, globs, gitFiles, fileTimes,
                 archives, prevArchives, packed, ciOutput, treeStatus, vs, dsts, clobbered,
                 develZip>>

\* The file name of an artifact, in pieces (lines 245, 264, 298, 377, 513,
\* 537): f"{archive_base}.zip", f"{self.project}-devel-{self.version}-VC.zip", ...
ArtifactFile(name, v) ==
  CASE name = "src-zip" -> <<"SDL2_image", "-", v, ".zip">>
    [] name = "src-tar-gz" -> <<"SDL2_image", "-", v, ".tar.gz">>
    [] name = "src-tar-xz" -> <<"SDL2_image", "-", v, ".tar.xz">>
    [] name = "dmg" -> <<"SDL2_image", "-", v, ".dmg">>
    [] name = "VC-x86" -> <<"SDL2_image", "-", v, "-win32-x86.zip">>
    [] name = "VC-x64" -> <<"SDL2_image", "-", v, "-win32-x64.zip">>
    [] name = "VC-devel" -> <<"SDL2_image", "-devel-", v, "-VC.zip">>
    [] name = "mingw-devel-tar-gz" -> <<"SDL2_image", "-devel-", v, "-mingw.tar.gz">>
    [] OTHER -> <<"SDL2_image", "-devel-", v, "-mingw.tar.xz">>

\* The path the registry holds for an artifact: the output directory, then the
\* file name.
ArtifactPath(a, v) == Append(a.dir, ArtifactFile(a.name, v))

\* A summary without the lines of the artifacts.
CiLinesHeadOnly(arts, v) ==
  << [key |-> "project", value |-> "SDL2_image"], [key |-> "version", value |-> v] >>

\* main, lines 714-718: the lines appended to the file GITHUB_OUTPUT names.
CiLines(arts, v) ==
  << [key |-> "project", value |-> "SDL2_image"], [key |-> "version", value |-> v] >>
  \o [i \in 1..Len(arts) |->
        [key |-> arts[i].name, value |-> PathName(ArtifactPath(arts[i], v))]]

\* main, lines 708-719: the summary; main returns 0. A dry run names the output
\* file itself; otherwise the environment names it, or the lookup raises.
Summary ==
  /\ pc = "summary"
  /\ \E envSet \in (IF github /\ ~dry THEN BOOLEAN ELSE {TRUE}) :
     IF ~envSet
     THEN Abort(1) /\ UNCHANGED ciOutput
     ELSE /\ ciOutput' = (IF github THEN CiLines(artifacts, version) ELSE ciOutput)
          /\ pc' = "done"
          /\ exitCode' = 0
  /\ UNCHANGED <<inputs, platform, cwdIsRoot, fs, run, commit, version, calls, steps,
                 globs, touched, artifacts, gitFiles, fileTimes, archives, prevArchives, packed,
                 failure, treeStatus, vs, dsts, clobbered, develZip>>

Ended == pc \in {"done", "aborted"}

\* The script is run again on the same checkout with the same command line: what
\* the run before left in the file system is there, and the clock has moved on.
Restart ==
  /\ Ended
  /\ run < MaxRuns
  /\ run' = run + 1
  /\ pc' = "start"
  /\ exitCode' = -1
  /\ commit' = ""
  /\ version' = <<>>
  /\ calls' = <<>>
  /\ steps' = <<>>
  /\ globs' = <<>>
  /\ touched' = {}
  /\ artifacts' = <<>>
  /\ gitFiles' = <<>>
  /\ fileTimes' = EmptyMap
  /\ archives' = NoArchives
  /\ prevArchives' = archives
  /\ packed' = NoPacked
  /\ fs' = [x \in FsFiles |-> IF fs[x] = "fresh" THEN "stale" ELSE fs[x]]
  /\ failure' = <<>>
  /\ ciOutput' = <<>>
  /\ treeStatus' = "unknown"
  /\ vs' = <<>>
  /\ clobbered' = {}
  /\ develZip' = <<>>
  /\ UNCHANGED <<inputs, platform, cwdIsRoot, dsts>>

Next ==
  \/ Start
  \/ Construct
  \/ CleanCheck
  \/ Prepare
  \/ Download
  \/ Verify
  \/ Source
  \/ Dmg
  \/ FindVS
  \/ BuildVsX86
  \/ BuildVsX64
  \/ BuildVsDevel
  \/ Mingw
  \/ Summary
  \/ Restart

Spec == Init /\ [][Next]_vars

SpecSource == InitSource /\ [][Next]_vars

SpecVersion == InitVersion /\ [][Next]_vars

SpecCi == InitCi /\ [][Next]_vars

SpecMsvc == InitMsvc /\ [][Next]_vars

SpecVs == InitVs /\ [][Next]_vars

SpecDevel == InitDevel /\ [][Next]_vars

SpecCommit == InitCommit /\ [][Next]_vars

SpecOrder == InitOrder /\ [][Next]_vars

\* ====================================================== the claims, main run
StepsRun == Range(steps)

AfterVerifySteps == {"source", "dmg", "findvs", "vs_x86", "vs_x64", "vs_devel", "mingw"}

AfterVerifyPcs == AfterVerifySteps \cup {"summary", "done"}

\* C1: verify_dependencies succeeds only if every glob (each dependency, each of
\* mingw, dmg, msvc) matches exactly one file; when a glob matches no file or
\* more than one the run aborts and no source, dmg, msvc or mingw step has started.
C1_VerifyGatesLaterSteps ==
  /\ (pc \in AfterVerifyPcs \/ StepsRun \cap AfterVerifySteps # {})
       => (Len(globs) = NDeps * 3 /\ \A i \in DOMAIN globs : globs[i] = 1)
  /\ (\E i \in DOMAIN globs : globs[i] # 1)
       => (pc = "aborted" /\ exitCode # 0 /\ StepsRun \cap AfterVerifySteps = {})

\* C1 witness: a run whose verification passed and whose later steps ran.
C1_Witness ==
  /\ pc = "done"
  /\ "source" \in StepsRun
  /\ Len(globs) = NDeps * 3

RootEvents == {e \in touched : e.area = "root"}

\* C2 as stated: in a dry run nothing under the project root is created, deleted
\* or modified, whatever the actions are.
C2_DryRunLeavesRootAlone == dry => RootEvents = {}

\* C2 amended: in a dry run the only steps that create, delete or modify
\* something under the project root (the output and the dependency folder aside)
\* are the dmg action and the msvc action; a dry run of download, source and
\* mingw alone changes nothing there.
C2_DryRunRootOnlyDmgMsvc ==
  dry => /\ \A e \in RootEvents : e.step \in {"dmg", "msvc"}
         /\ (actions \cap {"dmg", "msvc"} = {} => RootEvents = {})

\* C2 witness: a finished dry run of the dmg action, which has changed the bundle
\* under the root and the output folder.
C2_Witness ==
  /\ dry
  /\ pc = "done"
  /\ \E e \in RootEvents : e.step = "dmg"
  /\ \E e \in touched : e.area = "dist"

\* C3: in a dry run no external process is started: no call of Executer.run or
\* Executer.check_output spawns one, and check_output gives the caller's dry_out
\* (the commit of a dry run on a live checkout is the dry_out of git rev-parse).
C3_DryRunStartsNoProcess ==
  dry => /\ \A i \in DOMAIN calls : ~calls[i].spawned
         /\ (commit # "" /\ ~isArchive => commit = "e5812a9f")

\* C3 witness: a finished dry run that went through both Executer.check_output
\* and Executer.run.
C3_Witness ==
  /\ dry
  /\ pc = "done"
  /\ \E i \in DOMAIN calls : calls[i].cmd = "git status"
  /\ \E i \in DOMAIN calls : calls[i].cmd = "xcodebuild"

\* What the run needs from its surroundings whatever the mode: a version file the
\* patterns match, a live checkout, and dependency archives that verify.
SoundSetup ==
  /\ ExtractSdlVersion(versionText) # <<>>
  /\ ~isArchive
  /\ \A i \in DOMAIN globs : globs[i] = 1

\* C4 as stated: a dry run ends with exit code 0, whatever the actions are, and
\* has registered every artifact of every selected action under <out>/dry.
C4_DryRunCompletes ==
  (dry /\ Ended /\ SoundSetup)
    => /\ exitCode = 0
       /\ \A a \in actions : ArtifactsOf(a) \subseteq Registered
       /\ \A i \in DOMAIN artifacts : artifacts[i].dir = <<"dist", "dry">>

\* C10 as stated: VC-<arch> is registered only if every msbuild output the zip
\* packs was made after the outputs of earlier builds were deleted, and dmg only
\* if the bundle was; a file left over from an earlier build is never packed.
C10_RegisteredOutputsAreBuilt ==
  /\ \A arch \in Archs :
       ("VC-" \o arch) \in Registered => \A i \in Builts : packed[arch][i] = "fresh"
  /\ "dmg" \in Registered => fs[DmgFile] = "fresh"

\* ================================================ the claims, source archives
TreeFiles == Range(FileNames(tree))

SourceDone == archives # NoArchives

EntryNames(entries) == {entries[k].name : k \in DOMAIN entries}

Archived(path) ==
  LET name == <<ArchiveBase(version)>> \o path IN
  /\ name \in EntryNames(archives.zip[1].entries)
  /\ name \in EntryNames(archives.tgz[1].entries)
  /\ name \in EntryNames(archives.txz[1].entries)

ChecksMissing == \E i \in DOMAIN checks : checks[i] \notin TreeFiles

SourceRefused ==
  /\ pc = "aborted"
  /\ exitCode # 0
  /\ ~SourceDone
  /\ Registered \cap ArtifactsOf("source") = {}

\* C5 as stated: when the source action completes, every file of the checks list
\* is an entry of the three source archives, at <project>-<version>/<file>; when
\* a checks file is missing from the tree the run aborts and registers no source
\* archive.
C5_ChecksAreArchived ==
  /\ SourceDone => \A i \in DOMAIN checks : Archived(checks[i])
  /\ ("source" \in StepsRun /\ ChecksMissing) => SourceRefused

\* C5 amended: when the source action completes, every file of the checks list is
\* a file of the commit's tree, and every one whose path does not start with
\* ".git" is an entry of the three source archives, at <project>-<version>/<file>
\* (paths that start with ".git" are left out of the archives after the checks
\* were made); when a checks file is missing from the tree the run aborts and
\* registers no source archive.
C5_ChecksOutsideGitAreArchived ==
  /\ SourceDone => \A i \in DOMAIN checks :
                     /\ checks[i] \in TreeFiles
                     /\ checks[i][1] # ".git" => Archived(checks[i])
                     /\ checks[i][1] = ".git" => ~Archived(checks[i])
  /\ ("source" \in StepsRun /\ ChecksMissing) => SourceRefused

\* C5 witness: a finished source action whose two checks are both in the archives.
C5_Witness ==
  /\ pc = "done"
  /\ SourceDone
  /\ Len(checks) = 2
  /\ \A i \in DOMAIN checks : Archived(checks[i])

ZipEntries == archives.zip[1].entries

TgzEntries == archives.tgz[1].entries

TxzEntries == archives.txz[1].entries

\* What C6 says of two runs and of the gzip header, and of the paths, modes and
\* data of the three archives of one run.
SameAcrossRunsAndFormats ==
  /\ (run > 1 /\ prevArchives # NoArchives) => archives = prevArchives
  /\ archives.tgz[1].mtime = 0
  /\ TgzEntries = TxzEntries
  /\ Len(ZipEntries) = Len(TgzEntries)
  /\ Len(ZipEntries) = Len(gitFiles)
  /\ \A i \in DOMAIN ZipEntries :
       /\ ZipEntries[i].name = TgzEntries[i].name
       /\ ZipEntries[i].external_attr = [hi16 |-> TgzEntries[i].mode, lo16 |-> 0]
       /\ ZipEntries[i].data = TgzEntries[i].data

\* C6 as stated: two runs of the source action on the same commit give the same
\* entries in the same order, the gzip header's modification time is zero, and
\* the zip, the tar.gz and the tar.xz of one run hold the same entries: the same
\* paths, modes and timestamps, in the same order.
C6_SameEntriesSameTimes ==
  SourceDone =>
    /\ SameAcrossRunsAndFormats
    /\ \A i \in DOMAIN ZipEntries : ZipEntries[i].date_time = TgzEntries[i].mtime

\* C6 amended: two runs of the source action on the same commit give the same
\* entries in the same order, the gzip header's modification time is zero, the
\* tar.gz and the tar.xz hold the same entries, and the zip holds the same paths,
\* modes and data in the same order; the timestamp of a tar entry is the instant
\* of the file's commit time, that of a zip entry is the wall-clock reading of
\* that time in the commit's own UTC offset (the two agree for a commit made at
\* offset zero).
C6_SameEntriesOwnTimes ==
  SourceDone =>
    /\ SameAcrossRunsAndFormats
    /\ \A i \in DOMAIN ZipEntries :
         /\ TgzEntries[i].mtime = gitFiles[i].time.utc
         /\ ZipEntries[i].date_time = gitFiles[i].time.utc + gitFiles[i].time.off

\* C6 witness: a second run that has made the source archives as the first did,
\* with a file committed at an offset other than zero.
C6_Witness ==
  /\ run = 2
  /\ prevArchives # NoArchives
  /\ SourceDone
  /\ \E i \in DOMAIN ZipEntries : ZipEntries[i].date_time # TgzEntries[i].mtime

\* The place of a path among the members of the tree, in the order git archive
\* lists them.
TreePos(path) == CHOOSE k \in DOMAIN tree : tree[k].name = path

Listed(p, i) == \E k \in DOMAIN history[i].records : p \in Range(history[i].records[k])

ListedSomewhere(p) == \E i \in DOMAIN history : Listed(p, i)

\* The newest commit that lists p: the first one in the order of the log.
NewestListing(p) ==
  CHOOSE i \in DOMAIN history : Listed(p, i) /\ \A j \in 1..(i - 1) : ~Listed(p, j)

\* C8: _get_file_times gives every file of the tree the commit time of the newest
\* commit whose name-status record lists it (older records never replace it), and
\* it fails, and with it the run, when some file of the tree is listed by no
\* commit.
C8_FileTimesAreNewestListing ==
  /\ (SourceDone \/ fileTimes # EmptyMap)
       => /\ DOMAIN fileTimes = TreeFiles
          /\ \A p \in TreeFiles :
               ListedSomewhere(p) /\ fileTimes[p] = history[NewestListing(p)].time
  /\ ("source" \in StepsRun /\ \E p \in TreeFiles : ~ListedSomewhere(p))
       => (fileTimes = EmptyMap /\ SourceRefused)

\* C8 witness: a file that two commits list at different times has the time of
\* the newer one.
C8_Witness ==
  /\ SourceDone
  /\ Len(history) = 2
  /\ \E p \in TreeFiles :
       /\ Listed(p, 1) /\ Listed(p, 2)
       /\ history[1].time # history[2].time
       /\ fileTimes[p] = history[1].time

\* ===================================================== the claims, version
HasMatch(macro) == \E i \in DOMAIN versionText : versionText[i].macro = macro

AllMatch == HasMatch("major") /\ HasMatch("minor") /\ HasMatch("micro")

\* Group 1 of the first line the pattern matches.
FirstGroup(macro) ==
  LET i == CHOOSE i \in DOMAIN versionText :
             /\ versionText[i].macro = macro
             /\ \A j \in 1..(i - 1) : versionText[j].macro # macro
  IN versionText[i].val

\* C9: the version is MAJOR.MINOR.MICRO, each part group 1 of the first match of
\* its pattern in the version file; when one of the patterns has no match the
\* construction of the Releaser raises and the run ends before the output
\* directory is made or any artifact produced.
C9_VersionFromFirstMatches ==
  /\ version # <<>>
       => /\ AllMatch
          /\ version = <<FirstGroup("major"), ".", FirstGroup("minor"), ".",
                         FirstGroup("micro")>>
  /\ (AllMatch /\ pc \notin {"start", "construct", "aborted"}) => version # <<>>
  /\ (~AllMatch /\ pc \notin {"start", "construct"})
       => /\ pc = "aborted"
          /\ exitCode # 0
          /\ version = <<>>
          /\ touched = {}
          /\ artifacts = <<>>
          /\ steps = <<>>

\* C9 witness: a finished run on a version file whose major pattern matches two
\* lines with different digits.
C9_Witness ==
  /\ pc = "done"
  /\ \E i, j \in DOMAIN versionText :
       /\ i < j
       /\ versionText[i].macro = "major" /\ versionText[j].macro = "major"
       /\ versionText[i].val # versionText[j].val
       /\ version[1] = versionText[i].val

\* ================================================= the claims, failing commands
\* C11: in a run that is not dry, once an external command has exited with a
\* non-zero status the run is over with a non-zero exit status: the command that
\* failed is the last one started (nothing is run after it, nothing is run
\* again), no artifact is registered after it and no CI summary is written.
C11_FailedCommandEndsRun ==
  failure # <<>> =>
    /\ ~dry
    /\ pc = "aborted"
    /\ exitCode # 0
    /\ Len(calls) = failure[1].at
    /\ calls[Len(calls)].spawned
    /\ Len(artifacts) = failure[1].arts
    /\ ciOutput = <<>>

\* C11 witness: under CI, a command failed after an artifact had been registered.
C11_Witness ==
  /\ github
  /\ failure # <<>>
  /\ Len(artifacts) > 0
  /\ Len(calls) > 1
  /\ pc = "aborted"

\* The commands of the run so far, by name.
Commands == {calls[i].cmd : i \in DOMAIN calls}

\* C12: on a live checkout whose git status output is not empty, without --force
\* the run aborts before the output directory is created and before any action
\* runs; with --force it goes on to create the output directory; with the marker
\* file at the root git status is never called.
C12_DirtyTreeNeedsForce ==
  /\ (treeStatus = "dirty" /\ ~force)
       => /\ ~isArchive
          /\ pc = "aborted" /\ exitCode # 0
          /\ touched = {} /\ steps = <<>> /\ artifacts = <<>>
  /\ (treeStatus = "dirty" /\ force)
       => (pc = "prepare" \/ PrepareEvents \subseteq touched)
  /\ isArchive => (treeStatus = "unknown" /\ "git status" \notin Commands)

\* C12 witness: git status reported files, --force was not given, the run is over.
C12_Witness ==
  /\ ~isArchive /\ ~force
  /\ treeStatus = "dirty"
  /\ pc = "aborted"
  /\ "git status" \in Commands

\* ======================================================= the claims, msvc steps
\* C13: in the dependency extraction of build_vs, without --overwrite no file
\* that exists at a destination is written: the build raises and the file keeps
\* its content; a file is replaced only with --overwrite. This holds over both
\* architecture builds and every copied member.
C13_ExistingFileNeedsOverwrite ==
  /\ [](~overwrite => clobbered = {})
  /\ [][~overwrite =>
          \A x \in DstFiles :
             dsts[x] \notin {"unknown", "absent"} => dsts'[x] = dsts[x]]_vars
  /\ [][(~overwrite /\ pc \in {"vs_x86", "vs_x64"}
           /\ \E c \in Range(manifest.copies) :
                dsts[DstOf(c, IF pc = "vs_x86" THEN "x86" ELSE "x64")] \notin {"unknown", "absent"})
          => (pc' = "aborted" /\ exitCode' # 0 /\ artifacts' = artifacts)]_vars

\* C13 witness: without --overwrite the x64 build met the file the x86 build had
\* copied to a destination without a placeholder, and the run ended there.
C13_Witness ==
  /\ ~overwrite
  /\ pc = "aborted"
  /\ steps # <<>> /\ steps[Len(steps)] = "vs_x64"
  /\ dsts[DstShared] = "x86"
  /\ calls[Len(calls)].cmd = "cmd.exe msbuild"
  /\ Len(artifacts) = 1

\* C14: when the msvc action runs with --vs-year Y and Y is a known year, the
\* vswhere query carries the range [v, v+1) of that year and the installation it
\* locates is of that year; without --vs-year the query has no range and the
\* latest installation is located.
C14_VsYearPinsLookup ==
  vs # <<>> =>
    IF vsYear # <<>> /\ vsYear[1] \in VsYears
    THEN /\ vs[1].spec.range
              = <<VS_YEAR_TO_VERSION[vsYear[1]], VS_YEAR_TO_VERSION[vsYear[1]] + 1>>
         /\ (~dry /\ pc \in {"vs_x86", "vs_x64", "vs_devel"}) => vs[1].located = vsYear
    ELSE vsYear = <<>> => (vs[1].spec.latest /\ vs[1].spec.range = <<>>)

\* The entries C15 names for the paths of one manifest entry with a "devel"
\* destination: one per architecture when the path or the destination has a
\* placeholder, otherwise one, read from the path itself.
RECURSIVE ExpectedPaths(_, _, _)
ExpectedPaths(base, devel, paths) ==
  IF paths = <<>> THEN <<>>
  ELSE (IF HasAt(Head(paths)) \/ HasAt(devel)
        THEN PerArch(base, devel, Head(paths))
        ELSE <<DevelEntry(<<"root">> \o Head(paths),
                          <<base>> \o devel \o <<PathName(Head(paths))>>)>>)
       \o ExpectedPaths(base, devel, Tail(paths))

RECURSIVE ExpectedFiles(_, _)
ExpectedFiles(base, list) ==
  IF list = <<>> THEN <<>>
  ELSE (IF Head(list).devel = <<>> THEN <<>>
        ELSE ExpectedPaths(base, Head(list).devel[1], Head(list).paths))
       \o ExpectedFiles(base, Tail(list))

\* C15: the development archive that build_vs_devel has built holds, for every
\* entry of the msbuild files and of the extra files with a "devel" destination
\* and every path of it, the entries named above and no other, and after them
\* one .git-hash entry under <project>-<version>/ stamped 2024-04-01.
C15_DevelZipContents ==
  "VC-devel" \in Registered =>
    LET expected == ExpectedFiles(ArchiveBase(version), manifest.msbuild \o manifest.files)
        n == Len(develZip)
    IN /\ n = Len(expected) + 1
       /\ Range(SubSeq(develZip, 1, n - 1)) = Range(expected)
       /\ develZip[n].name = <<ArchiveBase(version)>> \o GIT_HASH_FILENAME
       /\ develZip[n].date_time.year = 2024
       /\ develZip[n].date_time.month = 4
       /\ develZip[n].date_time.day = 1

\* ==================================================== the claims, the summary
\* C16: at the end of a successful run the registry holds the artifacts of the
\* selected actions, each once, and nothing else; under CI the output file has
\* the project line, the version line and one name=filename line per registry
\* entry; a run that has not succeeded has appended nothing to it.
C16_RegistryAndCiSummary ==
  /\ pc = "done" =>
       /\ Registered = UNION {ArtifactsOf(a) : a \in Range(actionList)}
       /\ Len(artifacts) = Cardinality(Registered)
       /\ ~github => ciOutput = <<>>
       /\ github =>
            /\ Len(ciOutput) = Len(artifacts) + 2
            /\ ciOutput[1] = [key |-> "project", value |-> "SDL2_image"]
            /\ ciOutput[2] = [key |-> "version", value |-> version]
            /\ \A i \in DOMAIN artifacts :
                 /\ ciOutput[i + 2].key = artifacts[i].name
                 /\ ciOutput[i + 2].value = ArtifactFile(artifacts[i].name, version)
  /\ pc # "done" => ciOutput = <<>>

\* C16 witness: a run under CI that started processes has ended well with the
\* artifacts of more than one action.
C16_Witness ==
  /\ pc = "done" /\ exitCode = 0
  /\ github /\ ~dry
  /\ {"src-zip", "VC-devel"} \subseteq Registered
  /\ Len(ciOutput) > 2

\* ===================================================== the claims, the commit
\* The word of a marker text that is not white space.
MarkerWord == CHOOSE h \in Range(markerText) : h \notin Whitespace

\* The commit-hash markers the run has written into archives: the .git-hash items
\* of the source archives and the last entry of the development zip.
HashMarkers ==
  {gitFiles[i].data : i \in {j \in DOMAIN gitFiles : gitFiles[j].path = GIT_HASH_FILENAME}}
  \cup (IF "VC-devel" \in Registered THEN {develZip[Len(develZip)].data} ELSE {})

\* With the marker file at the root the commit is its stripped content and
\* neither git rev-parse nor git status is called; every marker written into an
\* archive holds the commit.
MarkerCommitUsed ==
  /\ (isArchive /\ pc # "start")
       => (commit = MarkerWord /\ Commands \cap {"git rev-parse", "git status"} = {})
  /\ \A d \in HashMarkers : d = <<"text", commit>>

\* C17 as stated: ... and without the marker file the commit is what git
\* rev-parse prints for the --commit argument.
C17_CommitFromMarkerOrRevParse ==
  /\ MarkerCommitUsed
  /\ (~isArchive /\ commit # "") => <<commit, "\n">> = RevParse(commitArg)

\* C17 amended: ... and without the marker file the commit is, in a run that is
\* not dry, what git rev-parse prints for the --commit argument, and in a dry run
\* the fixed hash e5812a9f..., whatever --commit says.
C17_CommitFromMarkerOrRevParseOrDry ==
  /\ MarkerCommitUsed
  /\ (~isArchive /\ commit # "" /\ ~dry) => <<commit, "\n">> = RevParse(commitArg)
  /\ (~isArchive /\ commit # "" /\ dry) => commit = "e5812a9f"

\* C17 witness: built from an archive whose marker has white space around the
\* hash, with another --commit, the development zip holds the marker's hash.
C17_Witness ==
  /\ isArchive
  /\ Len(markerText) = 3
  /\ commitArg # "HEAD"
  /\ "VC-devel" \in Registered
  /\ develZip[Len(develZip)].data = <<"text", MarkerWord>>

\* ============================================== the claims, the order of steps
StepOrder ==
  <<"download", "verify", "source", "dmg", "findvs", "vs_x86", "vs_x64", "vs_devel", "mingw">>

Rank(st) == CHOOSE i \in DOMAIN StepOrder : StepOrder[i] = st

\* The action a step belongs to; the verification belongs to none.
ActionOfStep(st) ==
  IF st \in {"findvs", "vs_x86", "vs_x64", "vs_devel"} THEN "msvc" ELSE st

\* C18: whatever the order and the number of the --actions flags, the steps of a
\* run come in the order download, verification, source, dmg, msvc (the lookup,
\* x86, x64, the development zip), mingw, each at most once; a step of an action
\* that is not selected never runs, and no step after the verification runs
\* without it, whatever is selected.
C18_FixedStepOrder ==
  /\ \A i, j \in DOMAIN steps : i < j => Rank(steps[i]) < Rank(steps[j])
  /\ \A i \in DOMAIN steps :
       steps[i] # "verify" => ActionOfStep(steps[i]) \in Range(actionList)
  /\ (pc \in AfterVerifyPcs \/ StepsRun \cap AfterVerifySteps # {}) => "verify" \in StepsRun

\* C18 witness: msvc, source and msvc again on the command line; the run did the
\* verification, the source archives and then the msvc steps, each once.
C18_Witness ==
  /\ actionList = <<"msvc", "source", "msvc">>
  /\ pc = "done"
  /\ steps = <<"verify", "source", "findvs", "vs_x86", "vs_x64", "vs_devel">>

====
